---- MODULE Spec2Model ----
(***************************************************************************)
(* Inactivity monitor: the monitoring loop of service/monitor.py with the  *)
(* state store (core/state_manager.py), the watermark merge                *)
(* (core/activity_manager.py) and the notification stubs                   *)
(* (core/email_utils.py).                                                  *)
(*                                                                         *)
(* Python dicts are functions with a finite set of string keys, so that a  *)
(* missing key, dict.get and {**a, **b} behave as in the code.  Times are  *)
(* whole seconds since the epoch, local time is UTC.                       *)
(*                                                                         *)
(* Sampling.  activity_manager.py:46 calls get_last_input_time(enable_logs)*)
(* while core/input.py:21 declares get_last_input_time() without           *)
(* parameter: as the two files stand the call raises TypeError on every    *)
(* tick and the tick ends in the handler of monitor.py:303-306.  TickError *)
(* is that outcome, and the one of a save_state that cannot open its file. *)
(* Tick and TickKilled take the probes at the values                       *)
(* their bodies return (core/input.py:31-49, core/system.py:13-39): the    *)
(* behaviours of the model are a superset of those of the two files as     *)
(* they stand.                                                             *)
(***************************************************************************)
EXTENDS Integers, Sequences, FiniteSets, TLC

VARIABLES
    state_kind,     \* what STATE_PATH holds: "absent", "unreadable", "corrupt" (not JSON),
                    \* "not_object" (JSON, but no object) or "object"
    state_file,     \* the JSON object in STATE_PATH; the dict without keys when it holds none
    settings_file,  \* contents of SETTINGS_PATH
    config_file,    \* contents of CONFIG_PATH; the dict without keys when the file is absent
    pc,             \* "starting", "active", "stopped" (main returned) or "killed"
    settings,       \* the settings read at startup (monitor.py:65-73)
    threshold,      \* timeout_minutes read at startup (monitor.py:125)
    now,            \* datetime.now() at the latest tick
    sample,         \* history: what the probes returned at the latest tick
    sent,           \* history: the notifications dispatched by the latest step, in order
    act,            \* history: the latest step
    steps,          \* number of ticks, restarts, outside resets and saved settings so far
    ep,             \* history: per level, the crossings seen by the running loop
    wk,             \* history: weekly dispatches against qualifying dates
    epi             \* history: dispatches since the newest watermark last advanced

vars == <<state_kind, state_file, settings_file, config_file, pc, settings, threshold, now,
          sample, sent, act, steps, ep, wk, epi>>

-----------------------------------------------------------------------------
(* Bounds of the model *)

MaxSteps == 4
RunCap == 3

(* Program constants *)

SleepSeconds == 30
Minute == 60
Hour == 60 * Minute
Day == 24 * Hour

-----------------------------------------------------------------------------
(* Python dicts *)

EmptyDict == [k \in {} |-> FALSE]

Get(d, k, dflt) == IF k \in DOMAIN d THEN d[k] ELSE dflt

Put(d, k, v) == [x \in DOMAIN d \cup {k} |-> IF x = k THEN v ELSE d[x]]

Merge(a, b) == [x \in DOMAIN a \cup DOMAIN b |-> IF x \in DOMAIN b THEN b[x] ELSE a[x]]

Max(a, b) == IF a >= b THEN a ELSE b

Min(a, b) == IF a <= b THEN a ELSE b

-----------------------------------------------------------------------------
(* datetime: date(), hour and weekday() of a timestamp; 1970-01-01 was a   *)
(* Thursday, weekday() 3                                                    *)

DateOf(ts) == ts \div Day

HourOf(ts) == (ts % Day) \div Hour

WeekdayOf(ts) == (DateOf(ts) + 3) % 7

-----------------------------------------------------------------------------
(* core/state_manager.py *)

DEFAULT_STATE ==
    [last_login_timestamp |-> 0,
     last_input_timestamp |-> 0,
     threshold_reached |-> FALSE,
     monitoring_30_reached |-> FALSE,
     monitoring_60_reached |-> FALSE,
     monitoring_90_reached |-> FALSE,
     service_disabled |-> FALSE,
     last_weekly_monitoring_timestamp |-> 0]

(* os.path.exists is false for an absent file; open raises on an unreadable *)
(* one, json.load on one that is not JSON and {**DEFAULT_STATE, **data} on  *)
(* JSON that is no object: the three are caught and fall to the copy of the *)
(* defaults                                                                 *)
load_state(kind, f) ==
    IF kind = "absent" THEN DEFAULT_STATE
    ELSE IF kind \in {"unreadable", "corrupt"} THEN DEFAULT_STATE
    ELSE IF kind = "not_object" THEN DEFAULT_STATE
    ELSE Merge(DEFAULT_STATE, f)

(* the save that writes the keys of DEFAULT_STATE only *)
save_state_default_keys(state) ==
    [k \in DOMAIN state \cap DOMAIN DEFAULT_STATE |-> state[k]]

save_state(state) == state

(* core/state.py, the loader of gui/service_tab.py: json.load's value is    *)
(* returned as it is, a dict or not; the fallback holds the two watermarks  *)
state_py_load_state(kind, f) ==
    IF kind \in {"absent", "unreadable", "corrupt"}
    THEN [is_dict |-> TRUE,
          dict |-> [last_login_timestamp |-> 0, last_input_timestamp |-> 0]]
    ELSE IF kind = "not_object" THEN [is_dict |-> FALSE, dict |-> EmptyDict]
    ELSE [is_dict |-> TRUE, dict |-> f]

ResetFlags ==
    {"threshold_reached", "monitoring_30_reached", "monitoring_60_reached",
     "monitoring_90_reached", "service_disabled"}

reset_monitoring_flags(kind, f) ==
    LET state == load_state(kind, f)
    IN  save_state([k \in DOMAIN state |-> IF k \in ResetFlags THEN FALSE ELSE state[k]])

-----------------------------------------------------------------------------
(* core/settings_manager.py, core/config_manager.py *)

DEFAULT_SETTINGS ==
    [enable_logs |-> FALSE,
     send_monitoring_on_start |-> FALSE,
     monitoring_sender |-> "",
     monitoring_at_30 |-> FALSE,
     monitoring_at_60 |-> FALSE,
     monitoring_at_90 |-> FALSE,
     startup_error |-> FALSE,
     weekly_monitoring_enabled |-> FALSE,
     weekly_monitoring_day |-> 0,
     weekly_monitoring_hour |-> 12]

load_settings(f) == Merge(DEFAULT_SETTINGS, f)

(* the keys main() subscripts at startup: a missing one raises KeyError *)
StartupSettingsKeys ==
    {"send_monitoring_on_start", "monitoring_at_30", "monitoring_at_60",
     "monitoring_at_90", "monitoring_weekly_enabled", "monitoring_weekly_day",
     "monitoring_weekly_hour", "enable_logs"}

(* the record the settings editor writes *)
build_setting(on_start, at30, at60, at90, weekly, day, hour) ==
    [enable_logs |-> FALSE,
     send_monitoring_on_start |-> on_start,
     monitoring_sender |-> "",
     monitoring_at_30 |-> at30,
     monitoring_at_60 |-> at60,
     monitoring_at_90 |-> at90,
     monitoring_weekly_enabled |-> weekly,
     monitoring_weekly_day |-> day,
     monitoring_weekly_hour |-> hour]

(* load_config returns None for an absent file; validate_config wants a    *)
(* truthy integer timeout_minutes and the mail fields                      *)
load_config(f) == f

(* validate_config that only wants the fields to be there *)
validate_config_keys_only(data) ==
    /\ "timeout_minutes" \in DOMAIN data
    /\ "email" \in DOMAIN data

validate_config(data) ==
    /\ "timeout_minutes" \in DOMAIN data
    /\ data["timeout_minutes"] # 0
    /\ "email" \in DOMAIN data
    /\ data["email"]

-----------------------------------------------------------------------------
(* core/activity_manager.py.  A sample is what get_last_login_time,        *)
(* get_last_input_time and is_user_logged_in return: a set with at most    *)
(* one timestamp (empty for None) and a boolean.                           *)

(* the merge without its comparisons: a sampled time always overwrites *)
manage_activity_time_overwrite(state, smp) ==
    LET s1 == IF smp.last_login # {}
              THEN Put(state, "last_login_timestamp", CHOOSE login_ts \in smp.last_login : TRUE)
              ELSE state
    IN  IF smp.logged_in /\ smp.last_idle # {}
        THEN Put(s1, "last_input_timestamp", CHOOSE idle_ts \in smp.last_idle : TRUE)
        ELSE s1

(* the merge without the is_user_logged_in() gate *)
manage_activity_time_ungated(state, smp) ==
    LET s1 == IF /\ smp.last_login # {}
                 /\ \E login_ts \in smp.last_login : login_ts > state["last_login_timestamp"]
              THEN Put(state, "last_login_timestamp", CHOOSE login_ts \in smp.last_login : TRUE)
              ELSE state
    IN  IF /\ smp.last_idle # {}
           /\ \E idle_ts \in smp.last_idle : idle_ts > state["last_input_timestamp"]
        THEN Put(s1, "last_input_timestamp", CHOOSE idle_ts \in smp.last_idle : TRUE)
        ELSE s1

(* the merge that also opens a new episode: an advancing login watermark  *)
(* clears latch 30                                                         *)
manage_activity_time_clears_latch(state, smp) ==
    LET s1 == IF /\ smp.last_login # {}
                 /\ \E login_ts \in smp.last_login : login_ts > state["last_login_timestamp"]
              THEN Put(Put(state, "last_login_timestamp",
                           CHOOSE login_ts \in smp.last_login : TRUE),
                       "monitoring_at_30", FALSE)
              ELSE state
    IN  IF /\ smp.logged_in
           /\ smp.last_idle # {}
           /\ \E idle_ts \in smp.last_idle : idle_ts > state["last_input_timestamp"]
        THEN Put(s1, "last_input_timestamp", CHOOSE idle_ts \in smp.last_idle : TRUE)
        ELSE s1

(* the call get_last_input_time(enable_logs) of activity_manager.py:46     *)
(* against the def get_last_input_time() of core/input.py:21: Python       *)
(* raises TypeError when the numbers of arguments and parameters differ    *)
get_last_input_time_arguments == 1

get_last_input_time_parameters == 0

sampling_raises == get_last_input_time_arguments # get_last_input_time_parameters

manage_activity_time(state, smp) ==
    LET s1 == IF /\ smp.last_login # {}
                 /\ \E login_ts \in smp.last_login : login_ts > state["last_login_timestamp"]
              THEN Put(state, "last_login_timestamp", CHOOSE login_ts \in smp.last_login : TRUE)
              ELSE state
    IN  IF /\ smp.logged_in
           /\ smp.last_idle # {}
           /\ \E idle_ts \in smp.last_idle : idle_ts > state["last_input_timestamp"]
        THEN Put(s1, "last_input_timestamp", CHOOSE idle_ts \in smp.last_idle : TRUE)
        ELSE s1

-----------------------------------------------------------------------------
(* service/monitor.py: one tick.  A step takes and returns the pair of the *)
(* in-memory state (state_updated_with_time) and the notifications         *)
(* dispatched so far.                                                      *)

last_activity_timestamp(state) ==
    Max(state["last_input_timestamp"], state["last_login_timestamp"])

(* last_sent_date != now_date, with None for a timestamp that is not > 0 *)
last_sent_date(state) ==
    LET last_sent_ts == Get(state, "last_weekly_monitoring_sent", 0)
    IN  IF last_sent_ts > 0 THEN {DateOf(last_sent_ts)} ELSE {}

(* should_send without the hour condition *)
should_send_any_hour(state, t, stg) ==
    /\ WeekdayOf(t) = stg["monitoring_weekly_day"]
    /\ last_sent_date(state) # {DateOf(t)}

(* should_send at the configured hour only *)
should_send_exact_hour(state, t, stg) ==
    /\ WeekdayOf(t) = stg["monitoring_weekly_day"]
    /\ HourOf(t) = stg["monitoring_weekly_hour"]
    /\ last_sent_date(state) # {DateOf(t)}

should_send(state, t, stg) ==
    /\ WeekdayOf(t) = stg["monitoring_weekly_day"]
    /\ HourOf(t) >= stg["monitoring_weekly_hour"]
    /\ last_sent_date(state) # {DateOf(t)}

(* the weekly step inside the guard on the newest watermark *)
WeeklyStep_needs_activity(m, t, stg) ==
    IF /\ last_activity_timestamp(m.state) > 0
       /\ stg["monitoring_weekly_enabled"]
       /\ should_send(m.state, t, stg)
    THEN [state |-> Put(m.state, "last_weekly_monitoring_sent", t),
          sent |-> Append(m.sent, "weekly")]
    ELSE m

(* the weekly step that does not record the send *)
WeeklyStep_unrecorded(m, t, stg) ==
    IF stg["monitoring_weekly_enabled"] /\ should_send(m.state, t, stg)
    THEN [state |-> m.state, sent |-> Append(m.sent, "weekly")]
    ELSE m

WeeklyStep(m, t, stg) ==
    IF stg["monitoring_weekly_enabled"] /\ should_send(m.state, t, stg)
    THEN [state |-> Put(m.state, "last_weekly_monitoring_sent", t),
          sent |-> Append(m.sent, "weekly")]
    ELSE m

(* diff_ts_minutes >= threshold * pct / 100, with diff_ts_minutes =        *)
(* diff_ts_seconds / 60, compared exactly                                   *)
(* every level compared with the 30% cutoff *)
Reached_at_30(diff_ts_seconds, thr, pct) == diff_ts_seconds * 100 >= thr * 30 * Minute

(* the comparison on the distance between now and the newest watermark *)
Reached_abs(diff_ts_seconds, thr, pct) ==
    (IF diff_ts_seconds < 0 THEN 0 - diff_ts_seconds ELSE diff_ts_seconds) * 100
        >= thr * pct * Minute

(* the comparison without the equality *)
Reached_strict(diff_ts_seconds, thr, pct) == diff_ts_seconds * 100 > thr * pct * Minute

Reached(diff_ts_seconds, thr, pct) == diff_ts_seconds * 100 >= thr * pct * Minute

(* core/email_utils.py: what a send_* placeholder hands back to the tick; *)
(* it logs and returns None, which is false, and cannot raise               *)
send_result(kind) == FALSE

(* the level step that sets the latch to what the send returned *)
LevelStep_on_delivery(m, enabled, key, kind, diff_ts_seconds, thr, pct) ==
    IF ~enabled
    THEN m
    ELSE IF Reached(diff_ts_seconds, thr, pct)
         THEN IF ~Get(m.state, key, FALSE)
              THEN [state |-> Put(m.state, key, send_result(kind)),
                    sent |-> Append(m.sent, kind)]
              ELSE m
         ELSE [state |-> Put(m.state, key, FALSE), sent |-> m.sent]

(* the level step that never sets the latch *)
LevelStep_unlatched(m, enabled, key, kind, diff_ts_seconds, thr, pct) ==
    IF ~enabled
    THEN m
    ELSE IF Reached(diff_ts_seconds, thr, pct)
         THEN IF ~Get(m.state, key, FALSE)
              THEN [state |-> m.state, sent |-> Append(m.sent, kind)]
              ELSE m
         ELSE [state |-> Put(m.state, key, FALSE), sent |-> m.sent]

(* the level step that never clears the latch *)
LevelStep_sticky(m, enabled, key, kind, diff_ts_seconds, thr, pct) ==
    IF ~enabled
    THEN m
    ELSE IF Reached(diff_ts_seconds, thr, pct)
         THEN IF ~Get(m.state, key, FALSE)
              THEN [state |-> Put(m.state, key, TRUE), sent |-> Append(m.sent, kind)]
              ELSE m
         ELSE m

(* the level step that does not look at the level's setting *)
LevelStep_ignores_enabled(m, enabled, key, kind, diff_ts_seconds, thr, pct) ==
    IF Reached(diff_ts_seconds, thr, pct)
    THEN IF ~Get(m.state, key, FALSE)
         THEN [state |-> Put(m.state, key, TRUE), sent |-> Append(m.sent, kind)]
         ELSE m
    ELSE [state |-> Put(m.state, key, FALSE), sent |-> m.sent]

LevelStep(m, enabled, key, kind, diff_ts_seconds, thr, pct) ==
    IF ~enabled
    THEN m
    ELSE IF Reached(diff_ts_seconds, thr, pct)
         THEN IF ~Get(m.state, key, FALSE)
              THEN [state |-> Put(m.state, key, TRUE), sent |-> Append(m.sent, kind)]
              ELSE m
         ELSE [state |-> Put(m.state, key, FALSE), sent |-> m.sent]

(* the final step that alerts without recording threshold_reached *)
FinalStep_unrecorded(m, diff_ts_seconds, thr) ==
    IF Reached(diff_ts_seconds, thr, 100)
    THEN [state |-> m.state,
          sent |-> m.sent \o <<"alert_to_recipient", "alert_to_monitoring">>]
    ELSE m

(* the final step without the alert to the monitoring address *)
FinalStep_one_alert(m, diff_ts_seconds, thr) ==
    IF Reached(diff_ts_seconds, thr, 100)
    THEN [state |-> Put(m.state, "threshold_reached", TRUE),
          sent |-> Append(m.sent, "alert_to_recipient")]
    ELSE m

FinalStep(m, diff_ts_seconds, thr) ==
    IF Reached(diff_ts_seconds, thr, 100)
    THEN [state |-> Put(m.state, "threshold_reached", TRUE),
          sent |-> m.sent \o <<"alert_to_recipient", "alert_to_monitoring">>]
    ELSE m

(* the threshold step without the test last_activity_timestamp > 0 *)
ThresholdStep_unguarded(m, t, stg, thr) ==
    LET diff_ts_seconds == t - last_activity_timestamp(m.state)
        m30 == LevelStep(m, stg["monitoring_at_30"], "monitoring_at_30",
                         "threshold_30", diff_ts_seconds, thr, 30)
        m60 == LevelStep(m30, stg["monitoring_at_60"], "monitoring_at_60",
                         "threshold_60", diff_ts_seconds, thr, 60)
        m90 == LevelStep(m60, stg["monitoring_at_90"], "monitoring_at_90",
                         "threshold_90", diff_ts_seconds, thr, 90)
    IN  FinalStep(m90, diff_ts_seconds, thr)

(* the threshold block with the cutoffs of 60 and 90 exchanged *)
ThresholdStep_exchanged(m, t, stg, thr) ==
    IF last_activity_timestamp(m.state) > 0
    THEN LET diff_ts_seconds == t - last_activity_timestamp(m.state)
             m30 == LevelStep(m, stg["monitoring_at_30"], "monitoring_at_30",
                              "threshold_30", diff_ts_seconds, thr, 30)
             m60 == LevelStep(m30, stg["monitoring_at_60"], "monitoring_at_60",
                              "threshold_60", diff_ts_seconds, thr, 90)
             m90 == LevelStep(m60, stg["monitoring_at_90"], "monitoring_at_90",
                              "threshold_90", diff_ts_seconds, thr, 60)
         IN  FinalStep(m90, diff_ts_seconds, thr)
    ELSE m

(* the threshold block that goes to the terminal test first and leaves the *)
(* levels out when it is met                                               *)
ThresholdStep_terminal_first(m, t, stg, thr) ==
    IF last_activity_timestamp(m.state) > 0
    THEN LET diff_ts_seconds == t - last_activity_timestamp(m.state)
             m30 == LevelStep(m, stg["monitoring_at_30"], "monitoring_at_30",
                              "threshold_30", diff_ts_seconds, thr, 30)
             m60 == LevelStep(m30, stg["monitoring_at_60"], "monitoring_at_60",
                              "threshold_60", diff_ts_seconds, thr, 60)
             m90 == LevelStep(m60, stg["monitoring_at_90"], "monitoring_at_90",
                              "threshold_90", diff_ts_seconds, thr, 90)
         IN  IF Reached(diff_ts_seconds, thr, 100)
             THEN FinalStep(m, diff_ts_seconds, thr)
             ELSE m90
    ELSE m

ThresholdStep(m, t, stg, thr) ==
    IF last_activity_timestamp(m.state) > 0
    THEN LET diff_ts_seconds == t - last_activity_timestamp(m.state)
             m30 == LevelStep(m, stg["monitoring_at_30"], "monitoring_at_30",
                              "threshold_30", diff_ts_seconds, thr, 30)
             m60 == LevelStep(m30, stg["monitoring_at_60"], "monitoring_at_60",
                              "threshold_60", diff_ts_seconds, thr, 60)
             m90 == LevelStep(m60, stg["monitoring_at_90"], "monitoring_at_90",
                              "threshold_90", diff_ts_seconds, thr, 90)
         IN  FinalStep(m90, diff_ts_seconds, thr)
    ELSE m

(* the tick up to, and without, save_state *)
TickBody(kind, f, smp, t, stg, thr) ==
    LET merged == manage_activity_time(load_state(kind, f), smp)
    IN  ThresholdStep(WeeklyStep([state |-> merged, sent |-> <<>>], t, stg), t, stg, thr)

-----------------------------------------------------------------------------
(* The environment: the files an installation holds, the clock and what    *)
(* the probes return                                                       *)

StartClock == 4 * Day

ClockSteps == {SleepSeconds, 8 * Hour, 7 * Day}

(* timeout_minutes 1600: the products 1600 * 0.3, 1600 * 0.6 and 1600 * 0.9 *)
(* of monitor.py:229-261 are the floats 480.0, 960.0 and 1440.0, so that   *)
(* Reached compares as the code does, the boundary included                *)
ConfigFiles ==
    {EmptyDict,
     [timeout_minutes |-> 0, email |-> TRUE],
     [timeout_minutes |-> 1600, email |-> TRUE]}

SettingsFiles ==
    {EmptyDict,
     build_setting(TRUE, TRUE, TRUE, TRUE, TRUE, 0, 8),
     build_setting(FALSE, TRUE, FALSE, TRUE, FALSE, 0, 8)}

(* what STATE_PATH holds before the first start: nothing, something that   *)
(* does not load, or the record of an installation that was disabled after *)
(* it had run, latch 30 set, with its clock a month ahead of StartClock,   *)
(* or of one that was disabled after it had reached the threshold          *)
StateFiles ==
    {[kind |-> "absent", data |-> EmptyDict],
     [kind |-> "unreadable", data |-> EmptyDict],
     [kind |-> "corrupt", data |-> EmptyDict],
     [kind |-> "not_object", data |-> EmptyDict],
     [kind |-> "object",
      data |-> [service_disabled |-> TRUE,
                monitoring_at_30 |-> TRUE,
                last_login_timestamp |-> StartClock + 30 * Day]],
     [kind |-> "object",
      data |-> [service_disabled |-> TRUE, threshold_reached |-> TRUE]]}

NoSample == [last_login |-> {}, last_idle |-> {}, logged_in |-> FALSE]

Samples(t) ==
    {[last_login |-> {}, last_idle |-> {}, logged_in |-> FALSE],
     [last_login |-> {}, last_idle |-> {t}, logged_in |-> FALSE],
     [last_login |-> {t - Day}, last_idle |-> {}, logged_in |-> TRUE],
     [last_login |-> {t - Day}, last_idle |-> {t}, logged_in |-> TRUE],
     [last_login |-> {t - Day}, last_idle |-> {t - 8 * Hour}, logged_in |-> TRUE]}

-----------------------------------------------------------------------------
(* History of the notifications, kept for the properties below *)

Levels == {30, 60, 90}

LatchKey(L) ==
    IF L = 30 THEN "monitoring_at_30"
    ELSE IF L = 60 THEN "monitoring_at_60" ELSE "monitoring_at_90"

Kind(L) ==
    IF L = 30 THEN "threshold_30"
    ELSE IF L = 60 THEN "threshold_60" ELSE "threshold_90"

ThresholdKinds ==
    {"threshold_30", "threshold_60", "threshold_90",
     "alert_to_recipient", "alert_to_monitoring"}

Elems(seq) == {seq[i] : i \in 1..Len(seq)}

Count(seq, kind) == Cardinality({i \in 1..Len(seq) : seq[i] = kind})

NoCrossing == [phase |-> 0, n |-> 0, cnt |-> 0]

(* phase 1: ticks at or above the cutoff since a tick that loaded the latch *)
(* false; 2: then ticks below it; 3: then ticks at or above it again; n    *)
(* counts the ticks of the phase and cnt the level's dispatches since      *)
(* phase 1 began                                                            *)
EpAfterTick(e, evaluated, above, was, d) ==
    LET c == Min(e.cnt + d, RunCap)
        k == Min(e.n + 1, RunCap)
    IN  IF ~evaluated THEN NoCrossing
        ELSE IF e.phase = 0
             THEN IF above /\ ~was THEN [phase |-> 1, n |-> 1, cnt |-> d] ELSE NoCrossing
        ELSE IF e.phase = 1
             THEN IF above THEN [phase |-> 1, n |-> k, cnt |-> c]
                           ELSE [phase |-> 2, n |-> 1, cnt |-> c]
        ELSE IF e.phase = 2
             THEN IF above THEN [phase |-> 3, n |-> 1, cnt |-> c]
                           ELSE [phase |-> 2, n |-> k, cnt |-> c]
        ELSE IF above THEN [phase |-> 3, n |-> k, cnt |-> c] ELSE NoCrossing

EpOfTick(e, loaded, m, t, thr) ==
    [L \in Levels |->
        EpAfterTick(e[L],
                    last_activity_timestamp(m.state) > 0,
                    Reached(t - last_activity_timestamp(m.state), thr, L),
                    Get(loaded, LatchKey(L), FALSE),
                    Count(m.sent, Kind(L)))]

Qualifies(t, stg) ==
    /\ stg["monitoring_weekly_enabled"]
    /\ WeekdayOf(t) = stg["monitoring_weekly_day"]
    /\ HourOf(t) >= stg["monitoring_weekly_hour"]

NoWeekly ==
    [date |-> 0, n |-> 0, dates |-> 0, total |-> 0, intr |-> FALSE, rs |-> FALSE,
     rep |-> FALSE]

(* date: the date of the latest completed tick that met the weekday and    *)
(* hour condition, n: such ticks on that date, dates: the dates that had   *)
(* one, total: weekly dispatches, intr: a tick was killed after its weekly *)
(* dispatch or inside save_state, or save_state raised after it, rs: the  *)
(* process started again after the first such tick of the date, rep: a    *)
(* date had a second such tick after a start                               *)
WkOfTick(w, m, t, stg) ==
    LET q == Qualifies(t, stg)
        fresh == q /\ DateOf(t) # w.date
    IN  [date |-> IF q THEN DateOf(t) ELSE w.date,
         n |-> IF fresh THEN 1 ELSE IF q THEN Min(w.n + 1, RunCap) ELSE w.n,
         dates |-> IF fresh THEN Min(w.dates + 1, RunCap) ELSE w.dates,
         total |-> Min(w.total + Count(m.sent, "weekly"), RunCap),
         intr |-> w.intr,
         rs |-> IF fresh THEN FALSE ELSE w.rs,
         rep |-> w.rep \/ (q /\ ~fresh /\ w.rs)]

NoEpisode == [la |-> 0, kinds |-> {}, dup |-> FALSE, modified |-> FALSE]

(* la: the newest watermark seen, kinds: the threshold notifications       *)
(* dispatched since it last advanced, dup: one of them was dispatched      *)
(* twice, modified: the state file was written from outside                *)
EpiOfTick(x, la, dispatched) ==
    LET base == IF la > x.la THEN {} ELSE x.kinds
        new == Elems(dispatched) \cap ThresholdKinds
    IN  [la |-> Max(la, x.la),
         kinds |-> base \cup new,
         dup |-> x.dup \/ (base \cap new # {}),
         modified |-> x.modified]

-----------------------------------------------------------------------------
(* The process *)

Init ==
    /\ \E f \in StateFiles : state_kind = f.kind /\ state_file = f.data
    /\ settings_file \in SettingsFiles
    /\ config_file \in ConfigFiles
    /\ pc = "starting"
    /\ settings = DEFAULT_SETTINGS
    /\ threshold = 0
    /\ now = StartClock
    /\ sample = NoSample
    /\ sent = <<>>
    /\ act = "init"
    /\ steps = 0
    /\ ep = [L \in Levels |-> NoCrossing]
    /\ wk = NoWeekly
    /\ epi = NoEpisode

(* startup calling reset_monitoring_flags *)
StartStateFile_reset(kind, f) == reset_monitoring_flags(kind, f)

(* what startup leaves in the state file: it only loads, monitor.py:75-82 *)
StartStateFile(kind, f) == f

(* startup without the return on threshold_reached *)
StartOutcome_ignores_reached(stg, state, config) ==
    IF ~(StartupSettingsKeys \subseteq DOMAIN stg)
    THEN [pc |-> "stopped", sent |-> <<>>]
    ELSE IF config = EmptyDict \/ ~validate_config(config)
    THEN [pc |-> "stopped", sent |-> <<>>]
    ELSE IF state["service_disabled"]
    THEN [pc |-> "stopped",
          sent |-> IF stg["send_monitoring_on_start"] THEN <<"start_disabled">> ELSE <<>>]
    ELSE [pc |-> "active",
          sent |-> IF stg["send_monitoring_on_start"] THEN <<"start">> ELSE <<>>]

(* startup without the return on service_disabled *)
StartOutcome_ignores_disabled(stg, state, config) ==
    IF ~(StartupSettingsKeys \subseteq DOMAIN stg)
    THEN [pc |-> "stopped", sent |-> <<>>]
    ELSE IF config = EmptyDict \/ ~validate_config(config)
    THEN [pc |-> "stopped", sent |-> <<>>]
    ELSE IF state["threshold_reached"]
    THEN [pc |-> "stopped",
          sent |-> IF stg["send_monitoring_on_start"] THEN <<"start_reached">> ELSE <<>>]
    ELSE [pc |-> "active",
          sent |-> IF stg["send_monitoring_on_start"] THEN <<"start">> ELSE <<>>]

(* startup that looks at service_disabled before threshold_reached *)
StartOutcome_disabled_first(stg, state, config) ==
    IF ~(StartupSettingsKeys \subseteq DOMAIN stg)
    THEN [pc |-> "stopped", sent |-> <<>>]
    ELSE IF config = EmptyDict \/ ~validate_config(config)
    THEN [pc |-> "stopped", sent |-> <<>>]
    ELSE IF state["service_disabled"]
    THEN [pc |-> "stopped",
          sent |-> IF stg["send_monitoring_on_start"] THEN <<"start_disabled">> ELSE <<>>]
    ELSE IF state["threshold_reached"]
    THEN [pc |-> "stopped",
          sent |-> IF stg["send_monitoring_on_start"] THEN <<"start_reached">> ELSE <<>>]
    ELSE [pc |-> "active",
          sent |-> IF stg["send_monitoring_on_start"] THEN <<"start">> ELSE <<>>]

(* main() up to the loop, monitor.py:57-125 *)
StartOutcome(stg, state, config) ==
    IF ~(StartupSettingsKeys \subseteq DOMAIN stg)
    THEN [pc |-> "stopped", sent |-> <<>>]
    ELSE IF config = EmptyDict \/ ~validate_config(config)
    THEN [pc |-> "stopped", sent |-> <<>>]
    ELSE IF state["threshold_reached"]
    THEN [pc |-> "stopped",
          sent |-> IF stg["send_monitoring_on_start"] THEN <<"start_reached">> ELSE <<>>]
    ELSE IF state["service_disabled"]
    THEN [pc |-> "stopped",
          sent |-> IF stg["send_monitoring_on_start"] THEN <<"start_disabled">> ELSE <<>>]
    ELSE [pc |-> "active",
          sent |-> IF stg["send_monitoring_on_start"] THEN <<"start">> ELSE <<>>]

Start ==
    /\ pc = "starting"
    /\ LET stg == load_settings(settings_file)
           out == StartOutcome(stg, load_state(state_kind, state_file), load_config(config_file))
       IN  /\ settings' = stg
           /\ pc' = out.pc
           /\ sent' = out.sent
           /\ threshold' = IF out.pc = "active"
                           THEN Get(load_config(config_file), "timeout_minutes", 4320)
                           ELSE threshold
    /\ act' = "start"
    /\ ep' = [L \in Levels |-> NoCrossing]
    /\ wk' = [wk EXCEPT !.rs = (wk.n >= 1)]
    /\ state_file' = StartStateFile(state_kind, state_file)
    /\ UNCHANGED <<state_kind, settings_file, config_file, now, sample, steps, epi>>

(* the pass that breaks on threshold_reached before it saves *)
TickWith_break_before_save(step, smp) ==
    LET t == now + step
        loaded == load_state(state_kind, state_file)
        m == TickBody(state_kind, state_file, smp, t, settings, threshold)
        reached == Get(m.state, "threshold_reached", FALSE)
    IN  /\ pc = "active"
        /\ state_file' = IF reached THEN state_file ELSE save_state(m.state)
        /\ state_kind' = IF reached THEN state_kind ELSE "object"
        /\ pc' = IF reached THEN "stopped" ELSE "active"
        /\ now' = t
        /\ sample' = smp
        /\ sent' = m.sent
        /\ ep' = EpOfTick(ep, loaded, m, t, threshold)
        /\ wk' = WkOfTick(wk, m, t, settings)
        /\ epi' = EpiOfTick(epi, last_activity_timestamp(m.state), m.sent)
        /\ act' = "tick"
        /\ UNCHANGED <<settings_file, config_file, settings, threshold>>

(* one whole pass of the loop body, monitor.py:129-301, that sleeps step   *)
(* seconds before it and samples smp                                       *)
TickWith(step, smp) ==
    LET t == now + step
        loaded == load_state(state_kind, state_file)
        m == TickBody(state_kind, state_file, smp, t, settings, threshold)
    IN  /\ pc = "active"
        /\ state_file' = save_state(m.state)
        /\ state_kind' = "object"
        /\ pc' = IF Get(m.state, "threshold_reached", FALSE)
                 THEN "stopped" ELSE "active"
        /\ now' = t
        /\ sample' = smp
        /\ sent' = m.sent
        /\ ep' = EpOfTick(ep, loaded, m, t, threshold)
        /\ wk' = WkOfTick(wk, m, t, settings)
        /\ epi' = EpiOfTick(epi, last_activity_timestamp(m.state), m.sent)
        /\ act' = "tick"
        /\ UNCHANGED <<settings_file, config_file, settings, threshold>>

Tick ==
    /\ steps < MaxSteps
    /\ steps' = steps + 1
    /\ \E step \in ClockSteps : \E smp \in Samples(now + step) : TickWith(step, smp)

(* the handler that logs the exception and goes on with the next pass *)
TickError_continues ==
    /\ pc = "active"
    /\ steps < MaxSteps
    /\ \E step \in ClockSteps : now' = now + step
    /\ sent' = <<>>
    /\ act' = "tick_error"
    /\ pc' = "active"
    /\ steps' = steps + 1
    /\ UNCHANGED <<state_kind, state_file, settings_file, config_file, settings,
                   threshold, sample, ep, wk, epi>>

(* the pass raises and the handler of monitor.py:303-306 ends the loop.    *)
(* Either the sampling call of activity_manager.py:46 raises: nothing was  *)
(* dispatched and nothing is saved.  Or open(STATE_PATH, "w") raises in    *)
(* save_state: the dispatches of the pass went out, the file is as it was  *)
(* and what the pass changed in memory is lost; with no dispatch in the    *)
(* pass this leaves what the first case leaves.                            *)
TickError ==
    /\ pc = "active"
    /\ steps < MaxSteps
    /\ \/ /\ sampling_raises
          /\ \E step \in ClockSteps : now' = now + step
          /\ sent' = <<>>
          /\ act' = "tick_error"
          /\ UNCHANGED <<sample, wk, epi>>
       \/ \E step \in ClockSteps :
            \E smp \in Samples(now + step) :
              LET t == now + step
                  m == TickBody(state_kind, state_file, smp, t, settings, threshold)
              IN  /\ Len(m.sent) >= 1
                  /\ now' = t
                  /\ sample' = smp
                  /\ sent' = m.sent
                  /\ act' = "save_error"
                  /\ wk' = [wk EXCEPT
                              !.total = Min(wk.total + Count(m.sent, "weekly"), RunCap),
                              !.intr = wk.intr \/ Count(m.sent, "weekly") > 0]
                  /\ epi' = EpiOfTick(epi, last_activity_timestamp(m.state), m.sent)
    /\ pc' = "stopped"
    /\ steps' = steps + 1
    /\ UNCHANGED <<state_kind, state_file, settings_file, config_file, settings,
                   threshold, ep>>

(* the process is killed inside a pass: before save_state, the first cut   *)
(* dispatches of the pass went out and nothing is saved; or inside         *)
(* save_state, after open(STATE_PATH, "w") emptied the file and before     *)
(* json.dump wrote all of it, and the file holds a prefix of the JSON text. *)
(* A kill before the first dispatch leaves what a restart of the sleeping  *)
(* loop leaves, and is Restart.                                            *)
TickKilled ==
    /\ pc = "active"
    /\ steps < MaxSteps
    /\ \E step \in ClockSteps :
         \E smp \in Samples(now + step) :
           LET t == now + step
               m == TickBody(state_kind, state_file, smp, t, settings, threshold)
           IN  \E cut \in 0..Len(m.sent) :
                 \E in_save \in {b \in BOOLEAN : (b => cut = Len(m.sent)) /\ (b \/ cut >= 1)} :
                   LET out == SubSeq(m.sent, 1, cut)
                   IN  /\ now' = t
                       /\ sample' = smp
                       /\ sent' = out
                       /\ state_kind' = IF in_save THEN "corrupt" ELSE state_kind
                       /\ state_file' = IF in_save THEN EmptyDict ELSE state_file
                       /\ wk' = [wk EXCEPT
                                   !.total = Min(wk.total + Count(out, "weekly"), RunCap),
                                   !.intr = wk.intr \/ Count(out, "weekly") > 0 \/ in_save]
                       /\ epi' = EpiOfTick(epi, last_activity_timestamp(m.state), out)
    /\ pc' = "killed"
    /\ act' = "tick_killed"
    /\ steps' = steps + 1
    /\ UNCHANGED <<settings_file, config_file, settings, threshold, ep>>

(* the service is started again: after main returned, after a kill, or    *)
(* while the loop sleeps (monitor.py:301)                                  *)
Restart ==
    /\ pc \in {"active", "stopped", "killed"}
    /\ steps < MaxSteps
    /\ pc' = "starting"
    /\ steps' = steps + 1
    /\ sent' = <<>>
    /\ act' = "restart"
    /\ UNCHANGED <<state_kind, state_file, settings_file, config_file, settings,
                   threshold, now, sample, ep, wk, epi>>

(* reset_monitoring_flags() is called from outside while the monitor is    *)
(* not running                                                             *)
ExternalReset ==
    /\ pc \in {"stopped", "killed"}
    /\ steps < MaxSteps
    /\ state_file' = reset_monitoring_flags(state_kind, state_file)
    /\ state_kind' = "object"
    /\ steps' = steps + 1
    /\ sent' = <<>>
    /\ act' = "reset"
    /\ epi' = [epi EXCEPT !.modified = TRUE]
    /\ UNCHANGED <<settings_file, config_file, pc, settings, threshold, now, sample,
                   ep, wk>>

(* the settings editor saves, gui/settings_tab.py:171-193.  main() reads   *)
(* the settings once, when it starts, so a save shows at the next start    *)
(* only: the model takes it between a restart and that start               *)
on_save_clicked ==
    /\ pc = "starting"
    /\ act = "restart"
    /\ steps < MaxSteps
    /\ \E stg \in SettingsFiles \ {EmptyDict, settings_file} : settings_file' = stg
    /\ sent' = <<>>
    /\ act' = "save_settings"
    /\ steps' = steps + 1
    /\ UNCHANGED <<state_kind, state_file, config_file, pc, settings, threshold, now,
                   sample, ep, wk, epi>>

(* the service tab refreshes, gui/service_tab.py:144-163: it loads the     *)
(* state with core/state.py and writes nothing, so it is taken while the   *)
(* service is about to start                                               *)
check_and_display_service_info ==
    /\ pc = "starting"
    /\ act \in {"init", "restart"}
    /\ sent' = <<>>
    /\ act' = "gui_refresh"
    /\ UNCHANGED <<state_kind, state_file, settings_file, config_file, pc, settings,
                   threshold, now, sample, steps, ep, wk, epi>>

Next ==
    \/ Start
    \/ Tick
    \/ TickError
    \/ TickKilled
    \/ Restart
    \/ ExternalReset
    \/ on_save_clicked
    \/ check_and_display_service_info

Spec == Init /\ [][Next]_vars

(* The loop with its surroundings acting while it runs: one start, no kill *)
(* and no restart; the settings editor saves between two passes, the reset *)
(* is called between two passes or during one, a weekly send fails.        *)
on_save_clicked_active ==
    /\ pc = "active"
    /\ act # "save_settings"
    /\ steps < MaxSteps
    /\ \E stg \in SettingsFiles \ {EmptyDict, settings_file} : settings_file' = stg
    /\ sent' = <<>>
    /\ act' = "save_settings"
    /\ steps' = steps + 1
    /\ UNCHANGED <<state_kind, state_file, config_file, pc, settings, threshold, now,
                   sample, ep, wk, epi>>

(* what the probes return in these runs: nothing, or a session a day old   *)
(* with the last input eight hours ago                                     *)
EnvSamples(t) ==
    {NoSample,
     [last_login |-> {t - Day}, last_idle |-> {t - 8 * Hour}, logged_in |-> TRUE]}

TickEnv ==
    /\ steps < MaxSteps
    /\ steps' = steps + 1
    /\ \E step \in ClockSteps : \E smp \in EnvSamples(now + step) : TickWith(step, smp)

(* reset_monitoring_flags() is called from outside between two passes *)
ExternalResetActive ==
    /\ pc = "active"
    /\ act # "reset"
    /\ steps < MaxSteps
    /\ state_file' = reset_monitoring_flags(state_kind, state_file)
    /\ state_kind' = "object"
    /\ steps' = steps + 1
    /\ sent' = <<>>
    /\ act' = "reset"
    /\ epi' = [epi EXCEPT !.modified = TRUE]
    /\ UNCHANGED <<settings_file, config_file, pc, settings, threshold, now, sample,
                   ep, wk>>

(* the save that leaves false what it finds false in the file *)
write_over_merging(on_disk, state) ==
    [k \in DOMAIN state |->
        IF k \in ResetFlags /\ k \in DOMAIN on_disk /\ on_disk[k] = FALSE
        THEN FALSE ELSE state[k]]

(* open(STATE_PATH, "w") and json.dump, state_manager.py:61-62: the file    *)
(* is truncated and holds the record saved, whatever it held               *)
write_over(on_disk, state) == save_state(state)

(* reset_monitoring_flags() is called from outside while a pass is between *)
(* its load_state (monitor.py:135) and its save_state (line 293): the pass *)
(* works on the record it loaded and saves over what the reset wrote       *)
TickOverReset ==
    /\ pc = "active"
    /\ steps < MaxSteps
    /\ steps' = steps + 1
    /\ \E step \in ClockSteps :
         \E smp \in EnvSamples(now + step) :
           LET t == now + step
               loaded == load_state(state_kind, state_file)
               m == TickBody(state_kind, state_file, smp, t, settings, threshold)
               on_disk == reset_monitoring_flags(state_kind, state_file)
           IN  /\ state_file' = write_over(on_disk, m.state)
               /\ state_kind' = "object"
               /\ pc' = IF Get(m.state, "threshold_reached", FALSE)
                        THEN "stopped" ELSE "active"
               /\ now' = t
               /\ sample' = smp
               /\ sent' = m.sent
               /\ ep' = EpOfTick(ep, loaded, m, t, threshold)
               /\ wk' = WkOfTick(wk, m, t, settings)
               /\ epi' = [EpiOfTick(epi, last_activity_timestamp(m.state), m.sent)
                            EXCEPT !.modified = TRUE]
    /\ act' = "tick_over_reset"
    /\ UNCHANGED <<settings_file, config_file, settings, threshold>>

(* the handler that records the send although it raised *)
WeeklyStepRaised_recorded(m, t, stg) ==
    [state |-> Put(m.state, "last_weekly_monitoring_sent", t), sent |-> m.sent]

(* the weekly block when send_weekly_email raises, monitor.py:193-210: the *)
(* assignment of line 200 is skipped and the except clause logs            *)
WeeklyStepRaised(m, t, stg) == m

(* a pass whose weekly notification is due and whose send raises.  The     *)
(* placeholder send_weekly_email of core/email_utils.py:55-57 only logs;   *)
(* the pass is taken for a send that can fail                              *)
TickWeeklyFails ==
    /\ pc = "active"
    /\ steps < MaxSteps
    /\ steps' = steps + 1
    /\ \E step \in ClockSteps :
         \E smp \in EnvSamples(now + step) :
           LET t == now + step
               loaded == load_state(state_kind, state_file)
               merged == manage_activity_time(loaded, smp)
               m == ThresholdStep(WeeklyStepRaised([state |-> merged, sent |-> <<>>],
                                                   t, settings),
                                  t, settings, threshold)
           IN  /\ settings["monitoring_weekly_enabled"]
               /\ should_send(merged, t, settings)
               /\ state_file' = save_state(m.state)
               /\ state_kind' = "object"
               /\ pc' = IF Get(m.state, "threshold_reached", FALSE)
                        THEN "stopped" ELSE "active"
               /\ now' = t
               /\ sample' = smp
               /\ sent' = m.sent
               /\ ep' = EpOfTick(ep, loaded, m, t, threshold)
               /\ wk' = WkOfTick(wk, m, t, settings)
               /\ epi' = EpiOfTick(epi, last_activity_timestamp(m.state), m.sent)
    /\ act' = "tick_weekly_failed"
    /\ UNCHANGED <<settings_file, config_file, settings, threshold>>

NextEnv ==
    \/ Start
    \/ TickEnv
    \/ on_save_clicked_active
    \/ ExternalResetActive
    \/ TickOverReset
    \/ TickWeeklyFails

(* a first start of an installation whose settings were saved by the       *)
(* editor and whose configuration is valid: no state file yet              *)
InitEnv ==
    /\ state_kind = "absent"
    /\ state_file = EmptyDict
    /\ settings_file \in SettingsFiles \ {EmptyDict}
    /\ config_file \in {c \in ConfigFiles : c # EmptyDict /\ validate_config(c)}
    /\ pc = "starting"
    /\ settings = DEFAULT_SETTINGS
    /\ threshold = 0
    /\ now = StartClock
    /\ sample = NoSample
    /\ sent = <<>>
    /\ act = "init"
    /\ steps = 0
    /\ ep = [L \in Levels |-> NoCrossing]
    /\ wk = NoWeekly
    /\ epi = NoEpisode

SpecEnv == InitEnv /\ [][NextEnv]_vars

(* The loop left to itself: the process is started once and is neither     *)
(* killed nor restarted, no tick raises, the session began at StartClock   *)
(* (users[0].started, system.py:39) and nobody touches the machine, so the *)
(* login probe returns that time or nothing and the idle probe nothing.    *)
(* The loop body runs again after every time.sleep(30), monitor.py:128 and *)
(* 301: weak fairness on the tick.  The timeout is LiveTimeoutMinutes and  *)
(* the clock is followed for HorizonMinutes.                               *)
LiveTimeoutMinutes == 2

HorizonMinutes == 15

QuietSample == [last_login |-> {StartClock}, last_idle |-> {}, logged_in |-> TRUE]

InitLive ==
    /\ \E f \in StateFiles : state_kind = f.kind /\ state_file = f.data
    /\ settings_file \in SettingsFiles
    /\ config_file = [timeout_minutes |-> LiveTimeoutMinutes, email |-> TRUE]
    /\ pc = "starting"
    /\ settings = DEFAULT_SETTINGS
    /\ threshold = 0
    /\ now = StartClock
    /\ sample = NoSample
    /\ sent = <<>>
    /\ act = "init"
    /\ steps = 0
    /\ ep = [L \in Levels |-> NoCrossing]
    /\ wk = NoWeekly
    /\ epi = NoEpisode

TickQuiet ==
    /\ now + SleepSeconds <= StartClock + HorizonMinutes * Minute
    /\ UNCHANGED steps
    /\ \E smp \in {NoSample, QuietSample} : TickWith(SleepSeconds, smp)

NextLive ==
    \/ Start
    \/ TickQuiet

SpecLive == InitLive /\ [][NextLive]_vars /\ WF_vars(TickQuiet)

-----------------------------------------------------------------------------
(* What the properties read *)

Persisted == load_state(state_kind, state_file)

Latch(L) == Get(state_file, LatchKey(L), FALSE)

IsThresholdKind(kind) == kind \in ThresholdKinds

ThresholdPart(seq) == SelectSeq(seq, IsThresholdKind)

-----------------------------------------------------------------------------
(* C1: idempotent latching.  While the consecutive ticks of the running    *)
(* loop are at or above the cutoff of an enabled level, the first of them  *)
(* having loaded the level's latch false, exactly one notification of the  *)
(* level has been dispatched; this holds from the first of these ticks on, *)
(* so the dispatch is the first tick's.                                    *)
C1_IdempotentLatching ==
    \A L \in Levels :
        (settings[LatchKey(L)] /\ ep[L].phase = 1) => ep[L].cnt = 1

C1_Witness ==
    \E L \in Levels :
        settings[LatchKey(L)] /\ ep[L].phase = 1 /\ ep[L].n >= 2 /\ ep[L].cnt = 1

(* C2: episode reset.  Ticks at or above the cutoff of an enabled level,   *)
(* then ticks below it, then ticks at or above it again: exactly two       *)
(* notifications of the level have been dispatched.                        *)
C2_EpisodeReset ==
    \A L \in Levels :
        (settings[LatchKey(L)] /\ ep[L].phase = 3) => ep[L].cnt = 2

C2_Witness ==
    \E L \in Levels :
        settings[LatchKey(L)] /\ ep[L].phase = 3 /\ ep[L].cnt = 2 /\ Latch(L)

(* C3: a notification of level L is dispatched only by a tick that loaded  *)
(* latch L false and measured an inactivity at or above L's cutoff, and    *)
(* that tick dispatches it once.                                           *)
C3_DispatchOnlyOnCrossing ==
    [][\A L \in Levels :
          Kind(L) \in Elems(sent') =>
              LET merged == manage_activity_time(load_state(state_kind, state_file), sample')
                  la == Max(merged["last_input_timestamp"], merged["last_login_timestamp"])
              IN  /\ act' \in {"tick", "tick_killed", "save_error"}
                  /\ ~Latch(L)
                  /\ la > 0
                  /\ (now' - la) * 100 >= threshold * L * Minute
                  /\ Count(sent', Kind(L)) = 1]_vars

C3_Witness ==
    /\ act = "tick"
    /\ "threshold_60" \in Elems(sent)
    /\ "threshold_30" \notin Elems(sent)
    /\ Latch(30)

(* C4: no threshold notification (30, 60, 90, terminal) is dispatched a    *)
(* second time while the newest watermark has not advanced, whatever kills *)
(* and restarts happen, unless the state file was written from outside.    *)
C4_CrashSafe == epi.modified \/ ~epi.dup

(* C5: once threshold_reached is true in the state file, no step of the    *)
(* monitor writes it back to false; only the outside reset does.           *)
C5_TerminalSticky ==
    [][(Persisted["threshold_reached"] /\ act' # "reset")
          => Get(state_file', "threshold_reached", FALSE)]_vars

C5_Witness ==
    /\ Persisted["threshold_reached"]
    /\ act = "start"
    /\ pc = "stopped"

(* C6: a tick that loads all latches false, with all levels enabled, and   *)
(* measures an inactivity at or above timeout_minutes on a positive        *)
(* watermark dispatches 30, 60, 90 and the two alerts in this order, saves *)
(* threshold_reached and the latches true, and ends the loop; a stopped    *)
(* process runs no tick.                                                   *)
C6_TerminalCrossing ==
    [][/\ (/\ act' = "tick"
           /\ \A L \in Levels : settings[LatchKey(L)] /\ ~Latch(L)
           /\ LET merged == manage_activity_time(load_state(state_kind, state_file), sample')
                  la == Max(merged["last_input_timestamp"], merged["last_login_timestamp"])
              IN  la > 0 /\ (now' - la) >= threshold * Minute)
          => /\ ThresholdPart(sent') =
                  <<"threshold_30", "threshold_60", "threshold_90",
                    "alert_to_recipient", "alert_to_monitoring">>
             /\ Get(state_file', "threshold_reached", FALSE)
             /\ \A L \in Levels : Get(state_file', LatchKey(L), FALSE)
             /\ pc' = "stopped"
       /\ pc = "stopped" => act' \notin {"tick", "tick_killed", "tick_error", "save_error"}]_vars

C6_Witness ==
    /\ act = "tick"
    /\ pc = "stopped"
    /\ ThresholdPart(sent) =
          <<"threshold_30", "threshold_60", "threshold_90",
            "alert_to_recipient", "alert_to_monitoring">>
    /\ Persisted["threshold_reached"]

(* C7: last_login_timestamp and last_input_timestamp of the state file     *)
(* never decrease from one step to the next, the write that a kill cut     *)
(* short (C13) apart.                                                      *)
C7_WatermarksMonotonic ==
    [][act' # "tick_killed" =>
         /\ Get(state_file', "last_login_timestamp", 0) >= Persisted["last_login_timestamp"]
         /\ Get(state_file', "last_input_timestamp", 0) >= Persisted["last_input_timestamp"]]_vars

C7_Witness ==
    /\ act = "tick"
    /\ sample.logged_in
    /\ \E ts \in sample.last_idle : ts < Persisted["last_input_timestamp"]
    /\ \E ts \in sample.last_login : ts > 0

(* C8: a tick without an active session leaves last_input_timestamp as it  *)
(* was, whatever input time was sampled; a tick changes it only to a       *)
(* sampled input time that is strictly greater, with a session active.     *)
C8_InputGating ==
    [][act' = "tick" =>
          LET old == Persisted["last_input_timestamp"]
              new == Get(state_file', "last_input_timestamp", 0)
          IN  /\ ~sample'.logged_in => new = old
              /\ new # old =>
                    /\ sample'.logged_in
                    /\ sample'.last_idle = {new}
                    /\ new > old]_vars

C8_Witness ==
    /\ act = "tick"
    /\ ~sample.logged_in
    /\ \E ts \in sample.last_idle : ts > Persisted["last_input_timestamp"]

(* C9: weekly dedup.  As long as no tick was killed after its weekly       *)
(* dispatch or inside save_state, and save_state did not raise after it,   *)
(* the weekly dispatches are as many as the calendar dates that had a tick *)
(* meeting the weekday and hour condition, restarts included: one for all  *)
(* the ticks of a date, one more for the next date.                        *)
C9_WeeklyDedup == ~wk.intr => wk.total = wk.dates

C9_Witness ==
    /\ ~wk.intr
    /\ wk.rep
    /\ wk.dates = 2
    /\ wk.total = 2

(* C10: weekly gating.  A weekly notification is dispatched only by a tick *)
(* of a process with the heartbeat enabled, on the configured weekday, at  *)
(* or after the configured hour, the date of the last send differing from  *)
(* today's; a tick where one of these fails dispatches none and leaves the *)
(* last-sent field as it was.                                              *)
WeeklyDue ==
    /\ settings["monitoring_weekly_enabled"]
    /\ WeekdayOf(now') = settings["monitoring_weekly_day"]
    /\ HourOf(now') >= settings["monitoring_weekly_hour"]
    /\ \/ Get(state_file, "last_weekly_monitoring_sent", 0) <= 0
       \/ DateOf(Get(state_file, "last_weekly_monitoring_sent", 0)) # DateOf(now')

C10_WeeklyGating ==
    [][/\ "weekly" \in Elems(sent') => (act' \in {"tick", "tick_killed", "save_error"} /\ WeeklyDue)
       /\ (act' = "tick" /\ ~WeeklyDue) =>
             /\ "weekly" \notin Elems(sent')
             /\ Get(state_file', "last_weekly_monitoring_sent", 0)
                  = Get(state_file, "last_weekly_monitoring_sent", 0)]_vars

C10_Witness ==
    /\ act = "tick"
    /\ Qualifies(now, settings)
    /\ "weekly" \notin Elems(sent)
    /\ wk.n >= 2

(* C11: weekly catch-up.  A tick on the configured weekday, at or after    *)
(* the configured hour (later hours included, up to midnight), with no     *)
(* weekly send recorded for today's date, dispatches the weekly            *)
(* notification once and saves a last send time of today's date.           *)
C11_WeeklyCatchUp ==
    [][(/\ act' = "tick"
        /\ settings["monitoring_weekly_enabled"]
        /\ WeekdayOf(now') = settings["monitoring_weekly_day"]
        /\ HourOf(now') >= settings["monitoring_weekly_hour"]
        /\ \/ Get(state_file, "last_weekly_monitoring_sent", 0) <= 0
           \/ DateOf(Get(state_file, "last_weekly_monitoring_sent", 0)) # DateOf(now'))
       => /\ Count(sent', "weekly") = 1
          /\ Get(state_file', "last_weekly_monitoring_sent", 0) > 0
          /\ DateOf(Get(state_file', "last_weekly_monitoring_sent", 0)) = DateOf(now')]_vars

(* the first tick of the date to meet the condition ran after the hour *)
C11_Witness ==
    /\ act = "tick"
    /\ Qualifies(now, settings)
    /\ HourOf(now) > settings["monitoring_weekly_hour"]
    /\ wk.date = DateOf(now)
    /\ wk.n = 1
    /\ "weekly" \in Elems(sent)
    /\ DateOf(Get(state_file, "last_weekly_monitoring_sent", 0)) = DateOf(now)

(* C12: fail-open load.  Whenever STATE_PATH is absent, unreadable or does *)
(* not hold a JSON object, the loader of the monitor returns the default   *)
(* record, and the loader the service tab has just called returned a       *)
(* record that reads as the default one (watermarks 0, flags false, no     *)
(* weekly send).                                                           *)
C12_FailOpenLoad ==
    state_kind # "object" =>
        /\ load_state(state_kind, state_file) = DEFAULT_STATE
        /\ act = "gui_refresh" =>
              LET loaded == state_py_load_state(state_kind, state_file)
              IN  loaded.is_dict /\ Merge(DEFAULT_STATE, loaded.dict) = DEFAULT_STATE

(* C13: atomic persist.  After a pass, completed or killed at any point,   *)
(* the next load returns the record loaded by the pass or the complete     *)
(* record the pass was saving, never a truncated record or the defaults    *)
(* in their place.                                                         *)
C13_AtomicPersist ==
    [][act' \in {"tick", "tick_killed"} =>
          LET old == load_state(state_kind, state_file)
              new == TickBody(state_kind, state_file, sample', now', settings, threshold).state
          IN  load_state(state_kind', state_file') \in {old, new}]_vars

(* C14: latch bookkeeping is independent of the enable flag.  A tick with  *)
(* a positive watermark and an inactivity below the cutoff of level L      *)
(* saves latch L false, the level enabled or not.                          *)
C14_LatchBookkeeping ==
    [][\A L \in Levels :
          (/\ act' = "tick"
           /\ LET merged == manage_activity_time(load_state(state_kind, state_file), sample')
                  la == Max(merged["last_input_timestamp"], merged["last_login_timestamp"])
              IN  la > 0 /\ (now' - la) * 100 < threshold * L * Minute)
          => ~Get(state_file', LatchKey(L), FALSE)]_vars

TickActs == {"tick", "tick_killed", "tick_error", "save_error"}

(* C15: already-terminal startup.  A start that finds threshold_reached    *)
(* true in the state file ends stopped, dispatches at most the             *)
(* start-already-reached notification and leaves the state file as it is;  *)
(* as long as the flag is true no tick runs, whatever the restarts.        *)
C15_AlreadyTerminalStartup ==
    [][/\ (act' = "start" /\ Persisted["threshold_reached"])
          => /\ pc' = "stopped"
             /\ Elems(sent') \subseteq {"start_reached"}
             /\ state_kind' = state_kind /\ state_file' = state_file
       /\ Persisted["threshold_reached"] => act' \notin TickActs]_vars

C15_Witness ==
    /\ act = "start"
    /\ Persisted["threshold_reached"]
    /\ pc = "stopped"
    /\ sent = <<"start_reached">>

(* C16: disabled startup.  A start that finds service_disabled true and    *)
(* threshold_reached false ends stopped, dispatches at most the            *)
(* start-disabled notification and leaves the state file as it is; no tick *)
(* runs while the flag is true.                                            *)
C16_DisabledStartup ==
    [][/\ (act' = "start" /\ Persisted["service_disabled"] /\ ~Persisted["threshold_reached"])
          => /\ pc' = "stopped"
             /\ Elems(sent') \subseteq {"start_disabled"}
             /\ state_kind' = state_kind /\ state_file' = state_file
       /\ Persisted["service_disabled"] => act' \notin TickActs]_vars

C16_Witness ==
    /\ act = "start"
    /\ Persisted["service_disabled"]
    /\ pc = "stopped"
    /\ sent = <<"start_disabled">>

(* C17: configuration failure is fatal to startup.  With the configuration *)
(* file absent, or its timeout_minutes or mail section missing or empty, a *)
(* start ends stopped, dispatches nothing and leaves the state file as it  *)
(* is, and the process is never active.                                    *)
C17_ConfigFailureFatal ==
    [][(\/ config_file = EmptyDict
        \/ Get(config_file, "timeout_minutes", 0) = 0
        \/ ~Get(config_file, "email", FALSE))
       => /\ pc' # "active"
          /\ act' = "start" =>
                /\ pc' = "stopped"
                /\ sent' = <<>>
                /\ state_kind' = state_kind /\ state_file' = state_file]_vars

C17_Witness ==
    /\ act = "start"
    /\ pc = "stopped"
    /\ config_file # EmptyDict
    /\ Get(config_file, "timeout_minutes", 0) = 0
    /\ StartupSettingsKeys \subseteq DOMAIN settings
    /\ Get(settings, "send_monitoring_on_start", FALSE)
    /\ ~Persisted["service_disabled"]
    /\ sent = <<>>

(* C18: no-activity guard.  A tick whose watermarks are both 0 after the   *)
(* merge dispatches no 30, 60, 90 or terminal notification and saves the   *)
(* three latches and threshold_reached as it loaded them.                  *)
C18_NoActivityGuard ==
    [][(/\ act' \in {"tick", "tick_killed", "save_error"}
        /\ LET merged == manage_activity_time(load_state(state_kind, state_file), sample')
           IN  Max(merged["last_input_timestamp"], merged["last_login_timestamp"]) = 0)
       => /\ ThresholdPart(sent') = <<>>
          /\ act' = "tick" =>
                /\ \A L \in Levels :
                      Get(state_file', LatchKey(L), FALSE) = Get(state_file, LatchKey(L), FALSE)
                /\ Get(state_file', "threshold_reached", FALSE)
                      = Get(state_file, "threshold_reached", FALSE)]_vars

(* the first tick on an absent state file, no signal sampled *)
C18_Witness ==
    /\ act = "tick"
    /\ steps = 1
    /\ sample = NoSample
    /\ \A L \in Levels : settings[LatchKey(L)] /\ ~Latch(L)
    /\ Persisted["last_login_timestamp"] = 0
    /\ Persisted["last_input_timestamp"] = 0
    /\ ThresholdPart(sent) = <<>>

(* C19: latch on crossing, not on delivery.  A tick whose send for level L *)
(* returned a false value still saves latch L true, and a tick whose alert *)
(* returned one still saves threshold_reached true; the later ticks of the *)
(* same stay at or above the cutoff dispatch the level no more.            *)
C19_LatchOnCrossing ==
    [][act' = "tick" =>
          /\ \A L \in Levels :
                /\ (Kind(L) \in Elems(sent') /\ ~send_result(Kind(L)))
                      => Get(state_file', LatchKey(L), FALSE)
                /\ (settings[LatchKey(L)] /\ ep'[L].phase = 1 /\ ep'[L].n >= 2)
                      => Kind(L) \notin Elems(sent')
          /\ ("alert_to_recipient" \in Elems(sent') /\ ~send_result("alert_to_recipient"))
                => Get(state_file', "threshold_reached", FALSE)]_vars

C19_Witness ==
    /\ act = "tick"
    /\ \E L \in Levels :
          /\ settings[LatchKey(L)]
          /\ ~send_result(Kind(L))
          /\ ep[L].phase = 1 /\ ep[L].n = 2 /\ ep[L].cnt = 1
          /\ Kind(L) \notin Elems(sent)
          /\ Latch(L)

(* C20: partial crossing.  With the three levels enabled and their latches *)
(* loaded false, a tick on a positive watermark whose inactivity is at or  *)
(* above the 30% cutoff, equality included, and below the 60% cutoff       *)
(* dispatches the 30% notification and no other threshold notification,    *)
(* and saves latch 30 true, latches 60 and 90 false and threshold_reached  *)
(* false.                                                                  *)
C20_PartialCrossing ==
    [][(/\ act' = "tick"
        /\ \A L \in Levels : settings[LatchKey(L)] /\ ~Latch(L)
        /\ LET merged == manage_activity_time(load_state(state_kind, state_file), sample')
               la == Max(merged["last_input_timestamp"], merged["last_login_timestamp"])
           IN  /\ la > 0
               /\ (now' - la) * 100 >= threshold * 30 * Minute
               /\ (now' - la) * 100 < threshold * 60 * Minute)
       => /\ ThresholdPart(sent') = <<"threshold_30">>
          /\ Get(state_file', "monitoring_at_30", FALSE)
          /\ ~Get(state_file', "monitoring_at_60", FALSE)
          /\ ~Get(state_file', "monitoring_at_90", FALSE)
          /\ ~Get(state_file', "threshold_reached", FALSE)
          /\ pc' = "active"]_vars

(* the inactivity is the 30% cutoff to the second *)
C20_Witness ==
    /\ act = "tick"
    /\ \A L \in Levels : settings[LatchKey(L)]
    /\ ThresholdPart(sent) = <<"threshold_30">>
    /\ (now - last_activity_timestamp(Persisted)) * 100 = threshold * 30 * Minute
    /\ Latch(30) /\ ~Latch(60) /\ ~Latch(90)
    /\ ~Persisted["threshold_reached"]

-----------------------------------------------------------------------------
(* C21: sampling never fails the tick.  No pass of the loop ends in the    *)
(* handler of monitor.py:303-306 because its sampling raised: every pass   *)
(* goes on from the sampling to the threshold evaluation and the save.     *)
C21_SamplingNeverFails == act # "tick_error"

(* C22: tick step order.  Among the dispatches of one pass no weekly       *)
(* dispatch comes before a threshold or terminal dispatch.                 *)
C22_ThresholdBeforeWeekly ==
    act \in TickActs =>
        \A i \in 1..Len(sent) : \A j \in 1..Len(sent) :
            (sent[i] = "weekly" /\ IsThresholdKind(sent[j])) => j < i

(* C23: merge frame.  The merge of a tick hands on every key of the loaded *)
(* state other than the two watermarks as it received it, and adds none;   *)
(* the two watermarks the tick saves are the ones the merge produced, so   *)
(* no later step of the tick writes them; service_disabled is saved as it  *)
(* was loaded.                                                             *)
Watermarks == {"last_login_timestamp", "last_input_timestamp"}

C23_MergeFrame ==
    [][act' = "tick"
       => LET loaded == load_state(state_kind, state_file)
              merged == manage_activity_time(loaded, sample')
          IN  /\ DOMAIN merged = DOMAIN loaded
              /\ \A k \in DOMAIN loaded \ Watermarks : merged[k] = loaded[k]
              /\ \A k \in Watermarks : state_file'[k] = merged[k]
              /\ state_file'["service_disabled"] = loaded["service_disabled"]]_vars

(* the second tick of a crossing at 30% advanced both watermarks and left  *)
(* latch 30 set                                                            *)
C23_Witness ==
    /\ act = "tick"
    /\ ep[30].phase = 1 /\ ep[30].n >= 2
    /\ Latch(30)
    /\ sample.logged_in
    /\ sample.last_idle = {Persisted["last_input_timestamp"]}
    /\ sample.last_login = {Persisted["last_login_timestamp"]}

(* C24: eventual termination.  In a loop left to itself, once the newest   *)
(* watermark is positive the loop comes to a stop with threshold_reached   *)
(* saved true; and the loop leaves ACTIVE only in a tick that saves        *)
(* threshold_reached true.                                                 *)
C24_EventualTermination ==
    /\ (pc = "active" /\ last_activity_timestamp(Persisted) > 0)
          ~> (pc = "stopped" /\ Persisted["threshold_reached"])
    /\ [][(pc = "active" /\ pc' # "active")
          => (pc' = "stopped" /\ Get(state_file', "threshold_reached", FALSE))]_vars

(* the terminal tick of a loop that went through the 30% crossing and      *)
(* stayed above it for two more ticks                                      *)
C24_Witness ==
    /\ act = "tick"
    /\ pc = "stopped"
    /\ Persisted["threshold_reached"]
    /\ now - last_activity_timestamp(Persisted) >= threshold * Minute
    /\ ep[30].phase = 1 /\ ep[30].n >= 3

(* C25: tick-error policy.  A pass that raises ends the loop and leaves    *)
(* the state file as it was, so that what the pass changed in memory is    *)
(* not written; once the loop has ended the process runs no further pass   *)
(* and dispatches nothing: the next step is a new start of the service or  *)
(* a reset from outside.                                                   *)
C25_TickErrorAborts ==
    [][/\ act' \in {"tick_error", "save_error"}
          => /\ pc' = "stopped"
             /\ state_file' = state_file
             /\ state_kind' = state_kind
       /\ pc = "stopped" => (act' \in {"restart", "reset"} /\ sent' = <<>>)]_vars

(* save_state raised after the pass had dispatched the 30% notification:   *)
(* the loop is over and the file holds neither the latch nor the sampled   *)
(* login time                                                              *)
C25_Witness ==
    /\ act = "save_error"
    /\ pc = "stopped"
    /\ "threshold_30" \in Elems(sent)
    /\ settings["monitoring_at_30"]
    /\ ~Latch(30)
    /\ \E ts \in sample.last_login : ts > Persisted["last_login_timestamp"]

(* C26: weekly independence.  A tick dispatches the weekly notification,   *)
(* once, exactly when the notification is enabled, the weekday and hour    *)
(* match and no weekly notification was sent on the date of the tick:      *)
(* whatever the newest watermark (0 included), the inactivity, the latches *)
(* and threshold_reached are, the terminal tick included.                  *)
C26_WeeklyIndependence ==
    [][act' = "tick"
       => /\ Count(sent', "weekly") = (IF WeeklyDue THEN 1 ELSE 0)
          /\ WeeklyDue => Get(state_file', "last_weekly_monitoring_sent", 0) = now']_vars

(* a tick with both watermarks 0 dispatched the weekly notification *)
C26_Witness ==
    /\ act = "tick"
    /\ last_activity_timestamp(Persisted) = 0
    /\ sent = <<"weekly">>
    /\ Persisted["last_weekly_monitoring_sent"] = now

(* C27: a disabled level never notifies.  No pass dispatches the           *)
(* notification of a level whose setting is off, whatever the inactivity   *)
(* and the latch; a tick on a positive watermark whose inactivity is at or *)
(* above the timeout dispatches the two terminal alerts, in this order,    *)
(* whatever the three level settings are.                                  *)
C27_DisabledLevelSilent ==
    [][/\ \A L \in Levels : ~settings[LatchKey(L)] => Kind(L) \notin Elems(sent')
       /\ (/\ act' = "tick"
           /\ LET merged == manage_activity_time(load_state(state_kind, state_file), sample')
                  la == Max(merged["last_input_timestamp"], merged["last_login_timestamp"])
              IN  la > 0 /\ (now' - la) * 100 >= threshold * 100 * Minute)
          => /\ SelectSeq(sent', LAMBDA kind : kind \in {"alert_to_recipient",
                                                       "alert_to_monitoring"})
                  = <<"alert_to_recipient", "alert_to_monitoring">>
             /\ Get(state_file', "threshold_reached", FALSE)]_vars

(* the terminal tick of an installation with level 60 off: its latch was   *)
(* false, the inactivity is above its cutoff, the alerts went out and the  *)
(* 60% notification did not                                                *)
C27_Witness ==
    /\ act = "tick"
    /\ pc = "stopped"
    /\ ~settings["monitoring_at_60"]
    /\ settings["monitoring_at_30"]
    /\ ~Latch(60)
    /\ ThresholdPart(sent) = <<"threshold_30", "threshold_90", "alert_to_recipient",
                               "alert_to_monitoring">>
    /\ now - last_activity_timestamp(Persisted) >= threshold * Minute

(* C28: an external reset restores a fresh episode.  After                  *)
(* reset_monitoring_flags() the state file holds threshold_reached and     *)
(* service_disabled false and the three latches that the threshold         *)
(* evaluation reads false, and the watermarks and the weekly timestamp as  *)
(* they were.                                                              *)
C28_ResetRestoresEpisode ==
    [][act' = "reset"
       => LET before == load_state(state_kind, state_file)
          IN  /\ ~Get(state_file', "threshold_reached", FALSE)
              /\ ~Get(state_file', "service_disabled", FALSE)
              /\ \A L \in Levels : ~Get(state_file', LatchKey(L), FALSE)
              /\ \A k \in Watermarks : state_file'[k] = before[k]
              /\ Get(state_file', "last_weekly_monitoring_sent", 0)
                    = Get(before, "last_weekly_monitoring_sent", 0)]_vars

(* C29: settings defaults at startup.  A start without a settings file     *)
(* gets from load_settings a record that holds every setting startup       *)
(* reads, the optional notifications off, and goes on to one of the        *)
(* startup outcomes: with a valid configuration and a state that is        *)
(* neither terminal nor disabled it enters ACTIVE and dispatches nothing.  *)
C29_SettingsDefaults ==
    [][(act' = "start" /\ settings_file = EmptyDict)
       => /\ StartupSettingsKeys \subseteq DOMAIN settings'
          /\ (/\ Get(config_file, "timeout_minutes", 0) # 0
              /\ Get(config_file, "email", FALSE)
              /\ ~Persisted["threshold_reached"]
              /\ ~Persisted["service_disabled"])
             => (pc' = "active" /\ sent' = <<>>)]_vars

(* C30: negative inactivity.  A tick whose clock is earlier than the       *)
(* newest watermark it merged dispatches no threshold and no terminal      *)
(* notification, saves threshold_reached false and the latch of every      *)
(* enabled level false, and the loop goes on.                              *)
C30_NegativeInactivity ==
    [][(/\ act' = "tick"
        /\ LET merged == manage_activity_time(load_state(state_kind, state_file), sample')
           IN  now' < Max(merged["last_input_timestamp"], merged["last_login_timestamp"]))
       => /\ ThresholdPart(sent') = <<>>
          /\ ~Get(state_file', "threshold_reached", FALSE)
          /\ \A L \in Levels : settings[LatchKey(L)] => ~Get(state_file', LatchKey(L), FALSE)
          /\ pc' = "active"]_vars

(* a tick a month before the login time of the state file, which held      *)
(* latch 30 true before the tick                                           *)
C30_Witness ==
    /\ act = "tick"
    /\ now < last_activity_timestamp(Persisted)
    /\ settings["monitoring_at_30"]
    /\ ~Latch(30)
    /\ ThresholdPart(sent) = <<>>
    /\ pc = "active"

-----------------------------------------------------------------------------
(* C31: configuration freshness.  Every tick dispatches what the settings  *)
(* on disk at the time of the tick make it dispatch: a level switched off  *)
(* or on, or a weekly day or hour changed, by a save while the loop is     *)
(* ACTIVE shows on the next tick.                                          *)
C31_ConfigurationFreshness ==
    [][act' = "tick"
       => sent' = TickBody(state_kind, state_file, sample', now',
                           load_settings(settings_file), threshold).sent]_vars

(* C32: terminal dispatch guard.  A terminal alert is dispatched only by a *)
(* pass that loaded threshold_reached false; a tick dispatches the two     *)
(* alerts together, recipients first, and saves threshold_reached true     *)
(* with them; and while the state file holds threshold_reached true, which *)
(* it does until a reset from outside, no step dispatches an alert: over   *)
(* ticks and restarts the pair goes out at most once.                      *)
TerminalKinds == {"alert_to_recipient", "alert_to_monitoring"}

IsTerminalKind(kind) == kind \in TerminalKinds

C32_TerminalDispatchGuard ==
    [][/\ Elems(sent') \cap TerminalKinds # {}
          => /\ ~Persisted["threshold_reached"]
             /\ act' \in {"tick", "tick_killed", "save_error"}
       /\ act' = "tick"
          => /\ SelectSeq(sent', IsTerminalKind)
                  \in {<<>>, <<"alert_to_recipient", "alert_to_monitoring">>}
             /\ Elems(sent') \cap TerminalKinds # {}
                  => Get(state_file', "threshold_reached", FALSE)
       /\ (Persisted["threshold_reached"] /\ act' # "reset")
          => (Get(state_file', "threshold_reached", FALSE)
              /\ Elems(sent') \cap TerminalKinds = {})]_vars

(* the start after the terminal tick: the pair went out once and this      *)
(* start dispatched no alert                                               *)
C32_Witness ==
    /\ act = "start"
    /\ pc = "stopped"
    /\ Persisted["threshold_reached"]
    /\ TerminalKinds \subseteq epi.kinds
    /\ ~epi.dup
    /\ ~epi.modified

(* C33: single-writer tick isolation.  A tick is one step of the one loop: *)
(* it loads the file as the step before it left it and saves an object     *)
(* that holds every key it loaded.  A key is saved with another value than *)
(* the loaded one only for this tick's own changes: a watermark for the    *)
(* sample merged, the weekly timestamp for this tick's weekly dispatch, a  *)
(* latch of a level that is enabled, threshold_reached for this tick's     *)
(* alerts; and each of these changes is in the record saved.               *)
TickWrites ==
    Watermarks \cup {LatchKey(L) : L \in Levels}
        \cup {"last_weekly_monitoring_sent", "threshold_reached"}

C33_TickIsolation ==
    [][act' = "tick"
       => LET loaded == load_state(state_kind, state_file)
              merged == manage_activity_time(loaded, sample')
          IN  /\ pc = "active"
              /\ state_kind' = "object"
              /\ DOMAIN loaded \subseteq DOMAIN state_file'
              /\ DOMAIN state_file' \subseteq DOMAIN loaded \cup TickWrites
              /\ \A k \in DOMAIN loaded \ TickWrites : state_file'[k] = loaded[k]
              /\ \A k \in Watermarks : state_file'[k] = merged[k]
              /\ Get(state_file', "last_weekly_monitoring_sent", 0)
                    = (IF "weekly" \in Elems(sent') THEN now'
                       ELSE Get(loaded, "last_weekly_monitoring_sent", 0))
              /\ \A L \in Levels :
                    /\ Get(state_file', LatchKey(L), FALSE) # Get(loaded, LatchKey(L), FALSE)
                          => settings[LatchKey(L)]
                    /\ Kind(L) \in Elems(sent') => Get(state_file', LatchKey(L), FALSE)
              /\ Get(state_file', "threshold_reached", FALSE)
                    = (loaded["threshold_reached"] \/ Elems(sent') \cap TerminalKinds # {})]_vars

(* the second tick of a loop: it loaded what the first saved, latch 30     *)
(* and the weekly timestamp, kept both and added latch 60                  *)
C33_Witness ==
    /\ act = "tick"
    /\ ep[30].phase = 1 /\ ep[30].n >= 2
    /\ ep[60].phase = 1 /\ ep[60].n = 1
    /\ ThresholdPart(sent) = <<"threshold_60">>
    /\ Latch(30) /\ Latch(60)
    /\ Get(Persisted, "last_weekly_monitoring_sent", 0) > 0
    /\ Get(Persisted, "last_weekly_monitoring_sent", 0) < now

C39_WeeklyFailureContained ==
    [][act' = "tick_weekly_failed"
       => LET loaded == load_state(state_kind, state_file)
              merged == manage_activity_time(loaded, sample')
              la == Max(merged["last_input_timestamp"], merged["last_login_timestamp"])
          IN  /\ "weekly" \notin Elems(sent')
              /\ Get(state_file', "last_weekly_monitoring_sent", 0)
                    = Get(loaded, "last_weekly_monitoring_sent", 0)
              /\ \/ Get(state_file', "last_weekly_monitoring_sent", 0) <= 0
                 \/ DateOf(Get(state_file', "last_weekly_monitoring_sent", 0)) # DateOf(now')
              /\ state_kind' = "object"
              /\ \A k \in Watermarks : state_file'[k] = merged[k]
              /\ la > 0 => \A L \in Levels :
                    settings[LatchKey(L)]
                       => (Get(state_file', LatchKey(L), FALSE)
                             <=> (now' - la) * 100 >= threshold * L * Minute)
              /\ pc' = (IF Get(state_file', "threshold_reached", FALSE)
                        THEN "stopped" ELSE "active")]_vars

(* the weekly send failed on a pass that crossed 30%: the 30% notification *)
(* went out, its latch is saved, no weekly timestamp is, the loop goes on  *)
C39_Witness ==
    /\ act = "tick_weekly_failed"
    /\ pc = "active"
    /\ sent = <<"threshold_30">>
    /\ Latch(30)
    /\ Get(Persisted, "last_weekly_monitoring_sent", 0) = 0
    /\ Qualifies(now, settings)

(* C35: latch ordering.  With the three levels enabled, the state a tick   *)
(* saved has latch 90 only with latch 60 and latch 60 only with latch 30.  *)
C35_LatchOrdering ==
    (act = "tick" /\ \A L \in Levels : settings[LatchKey(L)])
       => /\ Latch(90) => Latch(60)
          /\ Latch(60) => Latch(30)

(* after a crossing of 60% the inactivity fell back between the cutoffs of *)
(* 30% and 60%: latch 30 stays, latch 60 is cleared                        *)
C35_Witness ==
    /\ act = "tick"
    /\ \A L \in Levels : settings[LatchKey(L)]
    /\ ep[60].phase = 2
    /\ Latch(30) /\ ~Latch(60) /\ ~Latch(90)

(* C36: terminal implies all enabled latches.  The state saved by the tick *)
(* that set threshold_reached holds the latch of every enabled level true, *)
(* and a level notification of that tick stands before the two alerts.     *)
C36_TerminalImpliesLatches ==
    (act = "tick" /\ Persisted["threshold_reached"])
       => /\ \A L \in Levels : settings[LatchKey(L)] => Latch(L)
          /\ \A i \in 1..Len(sent) : \A j \in 1..Len(sent) :
                (IsTerminalKind(sent[i]) /\ sent[j] \in {Kind(L) : L \in Levels}) => j < i

(* the terminal tick of a loop whose latch 30 was set by an earlier tick   *)
(* and whose level 60 is off: 90 and the alerts went out in this tick      *)
C36_Witness ==
    /\ act = "tick"
    /\ pc = "stopped"
    /\ Persisted["threshold_reached"]
    /\ ~settings["monitoring_at_60"]
    /\ ThresholdPart(sent) = <<"threshold_90", "alert_to_recipient", "alert_to_monitoring">>
    /\ Latch(30) /\ Latch(90) /\ ~Latch(60)

(* C37: the terminal state is durable before STOPPED.  The tick that ends  *)
(* the loop has saved threshold_reached true in a state file that loads,   *)
(* and a tick that dispatched the alerts ends the loop; the start of the   *)
(* service that finds this file, with a valid configuration, goes the      *)
(* already-terminal way: it does not enter ACTIVE and dispatches at most   *)
(* the start-already-reached notification.                                 *)
C37_TerminalDurable ==
    [][/\ act' = "tick"
          => /\ pc' = "stopped" => (/\ state_kind' = "object"
                                    /\ Get(state_file', "threshold_reached", FALSE))
             /\ Elems(sent') \cap TerminalKinds # {}
                   => (pc' = "stopped" /\ Get(state_file', "threshold_reached", FALSE))
       /\ (/\ act' = "start"
           /\ act = "restart"
           /\ TerminalKinds \subseteq epi.kinds
           /\ Persisted["threshold_reached"])
          => /\ pc' = "stopped"
             /\ Elems(sent') \subseteq {"start_reached"}]_vars

(* the start that follows the terminal tick and a restart: the file still  *)
(* holds threshold_reached and the start announced it                      *)
C37_Witness ==
    /\ act = "start"
    /\ pc = "stopped"
    /\ sent = <<"start_reached">>
    /\ Persisted["threshold_reached"]
    /\ TerminalKinds \subseteq epi.kinds
    /\ ~epi.modified

(* C38: start notification selection.  A start whose settings hold the     *)
(* keys startup reads and whose configuration is valid dispatches nothing  *)
(* when send_monitoring_on_start is off and else exactly one notification: *)
(* start-already-reached when the state holds threshold_reached, also      *)
(* with service_disabled, else start-disabled when it holds                *)
(* service_disabled, else start.  No pass of the loop dispatches a start   *)
(* notification, and a pass runs only after the start.                     *)
StartKinds == {"start", "start_disabled", "start_reached"}

C38_StartNotification ==
    [][/\ (/\ act' = "start"
           /\ StartupSettingsKeys \subseteq DOMAIN load_settings(settings_file)
           /\ Get(config_file, "timeout_minutes", 0) # 0
           /\ Get(config_file, "email", FALSE))
          => sent' = (IF ~load_settings(settings_file)["send_monitoring_on_start"]
                      THEN <<>>
                      ELSE IF Persisted["threshold_reached"] THEN <<"start_reached">>
                      ELSE IF Persisted["service_disabled"] THEN <<"start_disabled">>
                      ELSE <<"start">>)
       /\ Elems(sent') \cap StartKinds # {} => act' = "start"
       /\ act' \in TickActs => (pc = "active" /\ act # "restart")]_vars

(* a start on a state with threshold_reached and service_disabled both     *)
(* true announced the threshold                                            *)
C38_Witness ==
    /\ act = "start"
    /\ pc = "stopped"
    /\ sent = <<"start_reached">>
    /\ Persisted["threshold_reached"]
    /\ Persisted["service_disabled"]

====
